---- MODULE Spec2Model ----
(***************************************************************************)
(* Model of bitcoin_safe_lib.gui.qt: the SpinningButton busy/idle control  *)
(* (spinning_button.py) and the SignalTracker subscription bookkeeping     *)
(* (signal_tracker.py).                                                    *)
(*                                                                         *)
(* All callbacks run on the one GUI thread, so every handler is one        *)
(* atomic action.  Time is counted in periods of the animation timer.      *)
(***************************************************************************)
EXTENDS Integers, Sequences, FiniteSets, TLC

\* ---------------------------------------------------------------- bounds
MaxTimeout == 1      \* constructor argument timeout ranges over 0..MaxTimeout seconds
MaxElapsed == 12     \* time (in timer periods) followed within one spin cycle
MaxEmits == 4        \* notifications recorded
MaxRecords == 3      \* records held by a SignalTracker
MaxLive == 3         \* live connections per (signal, handler) pair
MaxOwnerConnections == 3   \* connections per signal of a torn-down owner

\* ------------------------------------------------------ program constants
TimerInterval == 100     \* self.timer.setInterval(100), milliseconds
MsPerSecond == 1000      \* self.timeout * 1000
AngleStep == 10          \* (self.rotation_angle + 10) % 360
FullTurn == 360
DefaultIconSize == 18    \* self._icon_size = QSize(18, 18)

None == "None"
Signals == {"s1", "s2"}              \* candidate external stop signals
EnabledIcon == <<"enabled_icon">>    \* self.enabled_icon

\* The render collaborator: one opaque icon per rotation angle.
_spinner_icon(angle) == <<"spinner", angle>>

\* A duration in milliseconds, in periods of the animation timer.
Periods(ms) == ms \div TimerInterval

VARIABLES
    \* SpinningButton
    spinning,               \* self._spinning
    rotation_angle,         \* self.rotation_angle
    icon,                   \* the icon last given to setIcon
    enabled,                \* QWidget.isEnabled()
    timer_active,           \* self.timer.isActive()
    timer_remaining,        \* periods until self.timer fires next
    timeout_active,         \* self.timeout_timer.isActive()
    timeout_remaining,      \* periods until self.timeout_timer fires
    timeout,                \* self.timeout (seconds)
    disable_while_spinning, \* self.disable_while_spinning
    stop_signal,            \* self._stop_signal
    connections,            \* per signal: connections of enable_button to it
    emitted,                \* signal_started_spinning / signal_stopped_spinning emissions
    \* history of the run
    elapsed,                \* periods spent spinning since the last Idle->Spinning transition
    old_signal,             \* self._stop_signal at entry of the last set_enable_signal
    lastOp,                 \* the operation that produced this state
    lastArg,                \* its argument (a signal), where it has one
    auto_disabled,          \* whether the start_spin that began this cycle disabled the control
    icon_size,              \* self._icon_size (side of the square, pixels)
    \* SignalTracker
    connected_signals,      \* self._connected_signals
    live,                   \* per (signal, handler): live connections in the toolkit
    issued,                 \* signal.disconnect calls made by the last tracker call, in order
    logged,                 \* "Could not disconnect" debug messages of the last tracker call
    escaped,                \* whether the last tracker call raised to its caller
    connects_ok,            \* SignalTracker.connect calls that returned since the last disconnect_all
    \* SignalTools.disconnect_all_signals_from
    owner_connections,      \* per signal attribute of the owner: its connections
    disconnect_calls        \* signal.disconnect() calls made by the last teardown

btnVars == <<spinning, rotation_angle, icon, enabled, timer_active, timer_remaining,
             timeout_active, timeout_remaining, timeout, disable_while_spinning,
             emitted>>
sigVars == <<stop_signal, connections, old_signal>>
trkVars == <<connected_signals, live, issued, logged, escaped, connects_ok,
             owner_connections, disconnect_calls>>
ctlVars == <<btnVars, sigVars, elapsed, auto_disabled, icon_size>>
vars == <<ctlVars, lastOp, lastArg, trkVars>>

\* The button's own fields as one value, so that a handler can call another.
Self ==
    [spinning |-> spinning, rotation_angle |-> rotation_angle, icon |-> icon,
     enabled |-> enabled, timer_active |-> timer_active,
     timer_remaining |-> timer_remaining, timeout_active |-> timeout_active,
     timeout_remaining |-> timeout_remaining, timeout |-> timeout,
     disable_while_spinning |-> disable_while_spinning, emitted |-> emitted]

\* QTimer.start() / start(msec) / stop()
timer_start(b) ==
    [b EXCEPT !.timer_active = TRUE, !.timer_remaining = Periods(TimerInterval)]
timeout_timer_start(b, msec) ==
    [b EXCEPT !.timeout_active = TRUE, !.timeout_remaining = Periods(msec)]
timer_stop(b) ==
    [b EXCEPT !.timer_active = FALSE, !.timer_remaining = 0]
timeout_timer_stop(b) ==
    [b EXCEPT !.timeout_active = FALSE, !.timeout_remaining = 0]

\* start_spin's repeat branch without the isActive() test on the timeout timer
start_spin_again_rearms(b) ==
    LET b1 == IF ~b.timer_active THEN timer_start(b) ELSE b
    IN  IF b1.timeout > 0
          THEN timeout_timer_start(b1, b1.timeout * MsPerSecond)
          ELSE b1

\* SpinningButton.start_spin, the branch taken when already spinning
start_spin_again(b) ==
    LET b1 == IF ~b.timer_active THEN timer_start(b) ELSE b
        b2 == IF b1.timeout > 0 /\ ~b1.timeout_active
                THEN timeout_timer_start(b1, b1.timeout * MsPerSecond)
                ELSE b1
    IN  b2

\* start_spin's Idle -> Spinning branch without the timeout > 0 test
start_spin_fresh_arms_zero(b) ==
    LET b1 == [b EXCEPT !.spinning = TRUE, !.rotation_angle = 0,
                        !.icon = _spinner_icon(0)]
        b2 == IF b1.disable_while_spinning /\ b1.enabled
                THEN [b1 EXCEPT !.enabled = FALSE] ELSE b1
        b3 == IF ~b2.timer_active THEN timer_start(b2) ELSE b2
        b4 == timeout_timer_start(b3, b3.timeout * MsPerSecond)
    IN  [b4 EXCEPT !.emitted = Append(@, "started")]

\* SpinningButton.start_spin, the Idle -> Spinning branch
start_spin_fresh(b) ==
    LET b1 == [b EXCEPT !.spinning = TRUE, !.rotation_angle = 0,
                        !.icon = _spinner_icon(0)]
        b2 == IF b1.disable_while_spinning /\ b1.enabled
                THEN [b1 EXCEPT !.enabled = FALSE] ELSE b1
        b3 == IF ~b2.timer_active THEN timer_start(b2) ELSE b2
        b4 == IF b3.timeout > 0
                THEN timeout_timer_start(b3, b3.timeout * MsPerSecond)
                ELSE b3
    IN  [b4 EXCEPT !.emitted = Append(@, "started")]

\* start_spin without the "already spinning" early return
start_spin_unguarded(b) == start_spin_fresh(b)

start_spin(b) ==
    IF b.spinning THEN start_spin_again(b) ELSE start_spin_fresh(b)

\* enable_button emitting whatever the prior state was
enable_button_always_emits(b) ==
    LET b1 == IF b.timer_active THEN timer_stop(b) ELSE b
        b2 == IF b1.timeout_active THEN timeout_timer_stop(b1) ELSE b1
        b3 == [b2 EXCEPT !.spinning = FALSE, !.icon = EnabledIcon]
        b4 == IF b3.disable_while_spinning /\ ~b3.enabled
                THEN [b3 EXCEPT !.enabled = TRUE] ELSE b3
    IN  [b4 EXCEPT !.emitted = Append(@, "stopped")]

\* enable_button returning early when the animation timer is not running
enable_button_needs_timer(b) ==
    IF ~b.timer_active THEN b
    ELSE LET b1 == timer_stop(b)
             b2 == IF b1.timeout_active THEN timeout_timer_stop(b1) ELSE b1
             was_spinning == b2.spinning
             b3 == [b2 EXCEPT !.spinning = FALSE, !.icon = EnabledIcon]
             b4 == IF b3.disable_while_spinning /\ ~b3.enabled
                     THEN [b3 EXCEPT !.enabled = TRUE] ELSE b3
         IN  IF was_spinning THEN [b4 EXCEPT !.emitted = Append(@, "stopped")] ELSE b4

\* enable_button without the stop of the timeout timer
enable_button_keeps_timeout(b) ==
    LET b1 == IF b.timer_active THEN timer_stop(b) ELSE b
        was_spinning == b1.spinning
        b3 == [b1 EXCEPT !.spinning = FALSE, !.icon = EnabledIcon]
        b4 == IF b3.disable_while_spinning /\ ~b3.enabled
                THEN [b3 EXCEPT !.enabled = TRUE] ELSE b3
    IN  IF was_spinning THEN [b4 EXCEPT !.emitted = Append(@, "stopped")] ELSE b4

enable_button(b) ==
    LET b1 == IF b.timer_active THEN timer_stop(b) ELSE b
        b2 == IF b1.timeout_active THEN timeout_timer_stop(b1) ELSE b1
        was_spinning == b2.spinning
        b3 == [b2 EXCEPT !.spinning = FALSE, !.icon = EnabledIcon]
        b4 == IF b3.disable_while_spinning /\ ~b3.enabled
                THEN [b3 EXCEPT !.enabled = TRUE] ELSE b3
    IN  IF was_spinning THEN [b4 EXCEPT !.emitted = Append(@, "stopped")] ELSE b4

\* ------------------------------------------------- observers that call back
\* What the observer of the notifications does when notified: nothing, call
\* enable_button from signal_started_spinning, or call start_spin from
\* signal_stopped_spinning. The emit is synchronous: the observer runs to its end
\* inside emit(), before the emitting handler goes on.
Observers == {"none", "on_started", "on_stopped"}

\* start_spin emitting signal_started_spinning before it starts the timers
start_spin_emits_first(b, obs) ==
    IF b.spinning THEN start_spin_again(b)
    ELSE LET b1 == [b EXCEPT !.spinning = TRUE, !.rotation_angle = 0,
                             !.icon = _spinner_icon(0)]
             b2 == IF b1.disable_while_spinning /\ b1.enabled
                     THEN [b1 EXCEPT !.enabled = FALSE] ELSE b1
             e  == [b2 EXCEPT !.emitted = Append(@, "started")]
             o  == IF obs = "on_started" THEN enable_button(e) ELSE e
             b3 == IF ~o.timer_active THEN timer_start(o) ELSE o
         IN  IF b3.timeout > 0
               THEN timeout_timer_start(b3, b3.timeout * MsPerSecond)
               ELSE b3

\* SpinningButton.start_spin with the observer run inside the emit of line 146,
\* the last statement of the handler that touches the control.
start_spin_observed(b, obs) ==
    IF b.spinning THEN start_spin_again(b)
    ELSE LET e == start_spin_fresh(b)
         IN  IF obs = "on_started" THEN enable_button(e) ELSE e

\* SpinningButton.enable_button with the observer run inside the emit of line 166.
enable_button_observed(b, obs) ==
    LET e == enable_button(b)
    IN  IF b.spinning /\ obs = "on_stopped" THEN start_spin(e) ELSE e

on_clicked_observed(b, obs) ==
    IF ~b.enabled THEN b ELSE start_spin_observed(b, obs)

RECURSIVE emit_to_button_observed(_, _, _)
emit_to_button_observed(b, n, obs) ==
    IF n = 0 THEN b
    ELSE emit_to_button_observed(enable_button_observed(b, obs), n - 1, obs)

\* on_clicked without the isEnabled() test
on_clicked_unguarded(b) == start_spin(b)

on_clicked(b) ==
    IF ~b.enabled THEN b ELSE start_spin(b)

\* rotate_svg advancing the angle without the modulo
rotate_svg_no_wrap(b) ==
    IF ~b.spinning
      THEN (IF b.timer_active THEN timer_stop(b) ELSE b)
      ELSE LET a == b.rotation_angle + AngleStep
           IN  [b EXCEPT !.rotation_angle = a, !.icon = _spinner_icon(a)]

\* rotate_svg without the "not spinning" early return
rotate_svg_unguarded(b) ==
    LET a == (b.rotation_angle + AngleStep) % FullTurn
    IN  [b EXCEPT !.rotation_angle = a, !.icon = _spinner_icon(a)]

\* rotate_svg with its state test inverted
rotate_svg_inverted_guard(b) ==
    IF b.spinning
      THEN (IF b.timer_active THEN timer_stop(b) ELSE b)
      ELSE LET a == (b.rotation_angle + AngleStep) % FullTurn
           IN  [b EXCEPT !.rotation_angle = a, !.icon = _spinner_icon(a)]

rotate_svg(b) ==
    IF ~b.spinning
      THEN (IF b.timer_active THEN timer_stop(b) ELSE b)
      ELSE LET a == (b.rotation_angle + AngleStep) % FullTurn
           IN  [b EXCEPT !.rotation_angle = a, !.icon = _spinner_icon(a)]

\* SpinningButton.setIconSize: a size that is no QSize raises TypeError before
\* anything is stored.
IconSizes == {18, 24}
setIconSize(sz, size, is_qsize) == IF ~is_qsize THEN sz ELSE size

\* ------------------------------------------------- the external stop signal
\* signal.connect(slot): one more connection of the slot.
sig_connect(conns, s) == [conns EXCEPT ![s] = @ + 1]

\* SpinningButton._disconnect_signal: signal.disconnect(slot) removes a connection
\* of the slot and raises when there is none; the exception is swallowed.
_disconnect_signal(conns, s) ==
    IF conns[s] > 0 THEN [conns EXCEPT ![s] = @ - 1] ELSE conns

\* set_enable_signal without the disconnect of the previous signal
set_enable_signal_keeps_old(stop, conns, sig, connect_ok) ==
    IF sig = None
      THEN [stop_signal |-> None, connections |-> conns]
      ELSE LET c2 == _disconnect_signal(conns, sig)
           IN  IF connect_ok
                 THEN [stop_signal |-> sig, connections |-> sig_connect(c2, sig)]
                 ELSE [stop_signal |-> None, connections |-> c2]

\* set_enable_signal whose except clause leaves self._stop_signal as assigned
set_enable_signal_stale(stop, conns, sig, connect_ok) ==
    LET c1 == IF stop # None THEN _disconnect_signal(conns, stop) ELSE conns
    IN  IF sig = None
          THEN [stop_signal |-> None, connections |-> c1]
          ELSE LET c2 == _disconnect_signal(c1, sig)
               IN  IF connect_ok
                     THEN [stop_signal |-> sig, connections |-> sig_connect(c2, sig)]
                     ELSE [stop_signal |-> sig, connections |-> c2]

\* SpinningButton.set_enable_signal; connect_ok: whether signal.connect returned
\* (TRUE) or raised (FALSE).
set_enable_signal(stop, conns, sig, connect_ok) ==
    LET c1 == IF stop # None THEN _disconnect_signal(conns, stop) ELSE conns
    IN  IF sig = None
          THEN [stop_signal |-> None, connections |-> c1]
          ELSE LET c2 == _disconnect_signal(c1, sig)
               IN  IF connect_ok
                     THEN [stop_signal |-> sig, connections |-> sig_connect(c2, sig)]
                     ELSE [stop_signal |-> None, connections |-> c2]

\* signal.emit(): every connection of enable_button is called in turn.
RECURSIVE emit_to_button(_, _)
emit_to_button(b, n) ==
    IF n = 0 THEN b ELSE emit_to_button(enable_button(b), n - 1)

\* ------------------------------------------------------------ SignalTracker
TrackedSignals == {"sigA", "sigB"}
Handlers == {"h1", "h2"}
Pairs == TrackedSignals \X Handlers
NoLive == [p \in Pairs |-> 0]

\* The attributes dir(owner) lists, in its (sorted) order, and what getattr gives
\* for each: a signal, an attribute that is no signal, or an exception.
OwnerAttributes == <<"broken", "clicked", "destroyed", "objectName", "pressed", "toggled">>
AttributeKind ==
    [a \in {"clicked", "destroyed", "pressed", "toggled"} |-> "signal"]
      @@ ("objectName" :> "plain") @@ ("broken" :> "raises")
OwnerSignals == {"clicked", "destroyed", "pressed", "toggled"}

\* SignalTracker.connect skipping a (signal, handler) pair it already holds
connect_dedups(connected, lv, p, connect_ok) ==
    IF \E i \in 1..Len(connected) : connected[i] = p
      THEN [connected_signals |-> connected, live |-> lv, escaped |-> FALSE]
      ELSE IF connect_ok
        THEN [connected_signals |-> Append(connected, p),
              live |-> [lv EXCEPT ![p] = @ + 1], escaped |-> FALSE]
        ELSE [connected_signals |-> connected, live |-> lv, escaped |-> TRUE]

\* SignalTracker.connect appending the record before signal.connect is called
connect_appends_first(connected, lv, p, connect_ok) ==
    IF connect_ok
      THEN [connected_signals |-> Append(connected, p),
            live |-> [lv EXCEPT ![p] = @ + 1], escaped |-> FALSE]
      ELSE [connected_signals |-> Append(connected, p), live |-> lv, escaped |-> TRUE]

\* SignalTracker.connect; connect_ok: whether signal.connect returned or raised.
\* An exception of signal.connect leaves the method before the append.
connect(connected, lv, p, connect_ok) ==
    IF connect_ok
      THEN [connected_signals |-> Append(connected, p),
            live |-> [lv EXCEPT ![p] = @ + 1], escaped |-> FALSE]
      ELSE [connected_signals |-> connected, live |-> lv, escaped |-> TRUE]

\* SignalTools.disconnect_signal without its try/except
disconnect_signal_unguarded(lv, p, fails) ==
    IF fails \/ lv[p] = 0
      THEN [live |-> lv, logged |-> <<>>, raised |-> TRUE]
      ELSE [live |-> [lv EXCEPT ![p] = @ - 1], logged |-> <<>>, raised |-> FALSE]

\* SignalTools.disconnect_signal: signal.disconnect(handler) removes one
\* connection; it raises when told to (fails) or when there is none, and the
\* exception is caught and logged.
disconnect_signal(lv, p, fails) ==
    IF fails \/ lv[p] = 0
      THEN [live |-> lv, logged |-> <<p>>, raised |-> FALSE]
      ELSE [live |-> [lv EXCEPT ![p] = @ - 1], logged |-> <<>>, raised |-> FALSE]

\* disconnect_signals popping from the front of the list
RECURSIVE disconnect_signals_fifo(_, _, _, _, _)
disconnect_signals_fifo(connected, lv, calls, log, failing) ==
    IF connected = <<>>
      THEN [connected_signals |-> connected, live |-> lv, issued |-> calls,
            logged |-> log, escaped |-> FALSE]
      ELSE LET p == Head(connected)
               r == disconnect_signal(lv, p, (Len(calls) + 1) \in failing)
           IN  disconnect_signals_fifo(Tail(connected), r.live, Append(calls, p),
                                       log \o r.logged, failing)

\* SignalTools.disconnect_signals: while connected: pop(), disconnect_signal.
\* failing: the positions of the list whose signal.disconnect raises.
RECURSIVE disconnect_signals(_, _, _, _, _)
disconnect_signals(connected, lv, calls, log, failing) ==
    IF connected = <<>>
      THEN [connected_signals |-> connected, live |-> lv, issued |-> calls,
            logged |-> log, escaped |-> FALSE]
      ELSE LET n == Len(connected)
               p == connected[n]
               rest == SubSeq(connected, 1, n - 1)
               r == disconnect_signal(lv, p, n \in failing)
           IN  IF r.raised
                 THEN [connected_signals |-> rest, live |-> r.live,
                       issued |-> Append(calls, p), logged |-> log \o r.logged,
                       escaped |-> TRUE]
                 ELSE disconnect_signals(rest, r.live, Append(calls, p),
                                         log \o r.logged, failing)

\* SignalTracker.disconnect_all
disconnect_all(connected, lv, failing) ==
    disconnect_signals(connected, lv, <<>>, <<>>, failing)

\* _safe_disconnect with an if in place of the while
_safe_disconnect_once(n, calls) ==
    IF n = 0
      THEN [connections |-> 0, calls |-> calls + 1, raised |-> FALSE]
      ELSE [connections |-> n - 1, calls |-> calls + 1, raised |-> FALSE]

\* SignalTools.disconnect_all_signals_from._safe_disconnect on a signal with n
\* connections: signal.disconnect() breaks one connection per call and raises
\* TypeError when none is left, which ends the loop.
RECURSIVE _safe_disconnect(_, _)
_safe_disconnect(n, calls) ==
    IF n = 0
      THEN [connections |-> 0, calls |-> calls + 1, raised |-> FALSE]
      ELSE _safe_disconnect(n - 1, calls + 1)

\* SignalTools.disconnect_all_signals_from: the loop over dir(owner), from its
\* i-th name on.
RECURSIVE disconnect_all_signals_from(_, _, _)
disconnect_all_signals_from(i, conns, calls) ==
    IF i > Len(OwnerAttributes)
      THEN [owner_connections |-> conns, disconnect_calls |-> calls, escaped |-> FALSE]
      ELSE LET name == OwnerAttributes[i]
           IN  IF name = "destroyed"
                 THEN disconnect_all_signals_from(i + 1, conns, calls)
               ELSE IF AttributeKind[name] = "raises"
                 THEN disconnect_all_signals_from(i + 1, conns, calls)
               ELSE IF AttributeKind[name] # "signal"
                 THEN disconnect_all_signals_from(i + 1, conns, calls)
               ELSE LET r == _safe_disconnect(conns[name], 0)
                        c == [conns EXCEPT ![name] = r.connections]
                    IN  IF r.raised
                          THEN [owner_connections |-> c,
                                disconnect_calls |-> calls + r.calls, escaped |-> TRUE]
                          ELSE disconnect_all_signals_from(i + 1, c, calls + r.calls)

\* ------------------------------------------------------------------ state
NoConnections == [s \in Signals |-> 0]

Init ==
    /\ spinning = FALSE
    /\ rotation_angle = 0
    /\ icon = EnabledIcon
    /\ enabled = TRUE
    /\ timer_active = FALSE
    /\ timer_remaining = 0
    /\ timeout_active = FALSE
    /\ timeout_remaining = 0
    /\ timeout \in 0..MaxTimeout
    /\ disable_while_spinning \in BOOLEAN
    /\ \E sig \in Signals \cup {None} :
         LET r == set_enable_signal(None, NoConnections, sig, TRUE)
         IN  stop_signal = r.stop_signal /\ connections = r.connections
    /\ emitted = <<>>
    /\ elapsed = 0
    /\ old_signal = None
    /\ lastOp = "init"
    /\ lastArg = None
    /\ connected_signals = <<>>
    /\ live = NoLive
    /\ issued = <<>>
    /\ logged = <<>>
    /\ escaped = FALSE
    /\ auto_disabled = FALSE
    /\ icon_size = DefaultIconSize
    /\ connects_ok = 0
    /\ owner_connections = [a \in OwnerSignals |-> 0]
    /\ disconnect_calls = 0

\* The button's fields become those of b; op(arg) is recorded as the operation.
\* fresh: the call made an Idle->Spinning transition; auto: that transition
\* disabled the control.
ApplyCycle(b, op, arg, fresh, auto) ==
    /\ spinning' = b.spinning
    /\ rotation_angle' = b.rotation_angle
    /\ icon' = b.icon
    /\ enabled' = b.enabled
    /\ timer_active' = b.timer_active
    /\ timer_remaining' = b.timer_remaining
    /\ timeout_active' = b.timeout_active
    /\ timeout_remaining' = b.timeout_remaining
    /\ timeout' = b.timeout
    /\ disable_while_spinning' = b.disable_while_spinning
    /\ emitted' = b.emitted
    /\ elapsed' = IF fresh THEN 0 ELSE elapsed
    /\ auto_disabled' = IF fresh THEN auto ELSE auto_disabled
    /\ icon_size' = icon_size
    /\ lastOp' = op
    /\ lastArg' = arg

Apply(b, op, arg) ==
    ApplyCycle(b, op, arg, ~spinning /\ b.spinning,
               disable_while_spinning /\ enabled)

\* Room in the notification record for one more spin cycle.
CanLog == spinning \/ Len(emitted) + 2 <= MaxEmits

\* ---------------------------------------------------------------- actions
StartSpin ==
    /\ CanLog
    /\ Apply(start_spin(Self), "start_spin", None)
    /\ UNCHANGED <<sigVars, trkVars>>

EnableButton ==
    /\ Apply(enable_button(Self), "enable_button", None)
    /\ UNCHANGED <<sigVars, trkVars>>

\* self.clicked -> on_clicked
Click ==
    /\ CanLog
    /\ Apply(on_clicked(Self), "on_clicked", None)
    /\ UNCHANGED <<sigVars, trkVars>>

\* self.timer.timeout -> rotate_svg; the timer repeats unless the slot stopped it
TimerTick ==
    /\ timer_active /\ timer_remaining = 0
    /\ LET b == rotate_svg(Self)
       IN  Apply(IF b.timer_active THEN timer_start(b) ELSE b, "tick", None)
    /\ UNCHANGED <<sigVars, trkVars>>

\* self.timeout_timer.timeout -> enable_button; single-shot
TimeoutFires ==
    /\ timeout_active /\ timeout_remaining = 0
    /\ Apply(enable_button(timeout_timer_stop(Self)), "timeout", None)
    /\ UNCHANGED <<sigVars, trkVars>>

\* One timer period passes; a timer that is due fires first.
Advance ==
    /\ spinning \/ timer_active \/ timeout_active
    /\ timer_active => timer_remaining > 0
    /\ timeout_active => timeout_remaining > 0
    /\ elapsed < MaxElapsed
    /\ timer_remaining' = IF timer_active THEN timer_remaining - 1 ELSE timer_remaining
    /\ timeout_remaining' = IF timeout_active THEN timeout_remaining - 1
                            ELSE timeout_remaining
    /\ elapsed' = IF spinning THEN elapsed + 1 ELSE elapsed
    /\ lastOp' = "advance"
    /\ lastArg' = None
    /\ UNCHANGED <<spinning, rotation_angle, icon, enabled, timer_active,
                   timeout_active, timeout, disable_while_spinning, emitted,
                   auto_disabled, icon_size, sigVars, trkVars>>

\* An external signal s emits.
FireSignal(s) ==
    /\ Apply(emit_to_button(Self, connections[s]), "fire", s)
    /\ UNCHANGED <<sigVars, trkVars>>

SetEnableSignal(sig, connect_ok) ==
    /\ LET r == set_enable_signal(stop_signal, connections, sig, connect_ok)
       IN  stop_signal' = r.stop_signal /\ connections' = r.connections
    /\ old_signal' = stop_signal
    /\ lastOp' = IF sig # None /\ ~connect_ok THEN "set_enable_signal_failed"
                 ELSE "set_enable_signal"
    /\ lastArg' = sig
    /\ UNCHANGED <<btnVars, elapsed, auto_disabled, icon_size, trkVars>>

\* The owner of the control calls QWidget.setEnabled(v).
SetEnabled(v) ==
    /\ enabled # v
    /\ Apply([Self EXCEPT !.enabled = v], "setEnabled", None)
    /\ UNCHANGED <<sigVars, trkVars>>

Next ==
    \/ StartSpin
    \/ EnableButton
    \/ Click
    \/ TimerTick
    \/ TimeoutFires
    \/ Advance
    \/ \E s \in Signals : FireSignal(s)
    \/ \E sig \in Signals \cup {None} : SetEnableSignal(sig, TRUE)
    \/ \E sig \in Signals : SetEnableSignal(sig, FALSE)
    \/ \E v \in BOOLEAN : SetEnabled(v)

Spec == Init /\ [][Next]_vars

\* ------------------------------------------- the owner reaches into the control
\* self.timer and self.timeout_timer are public attributes: start_spin's
\* "restart a stopped timer" branch exists for an owner that stops them.
StopTimer ==
    /\ timer_active
    /\ Apply(timer_stop(Self), "timer.stop", None)
    /\ UNCHANGED <<sigVars, trkVars>>

StopTimeoutTimer ==
    /\ timeout_active
    /\ Apply(timeout_timer_stop(Self), "timeout_timer.stop", None)
    /\ UNCHANGED <<sigVars, trkVars>>

\* The control with its stop signal as bound at construction, and an owner
\* that also stops the timers.
NextExt ==
    \/ StartSpin
    \/ EnableButton
    \/ Click
    \/ TimerTick
    \/ TimeoutFires
    \/ Advance
    \/ \E s \in Signals : FireSignal(s)
    \/ \E v \in BOOLEAN : SetEnabled(v)
    \/ StopTimer
    \/ StopTimeoutTimer

SpecExt == Init /\ [][NextExt]_vars

\* ------------------------------------------------------------- properties
TimeoutPeriods == Periods(timeout * MsPerSecond)
OnlyConnected(sig) == [s \in Signals |-> IF s = sig THEN 1 ELSE 0]

\* C1: a start_spin call made while the control is already Spinning leaves
\* rotation_angle, the icon, the enabled-state and the emitted notifications as
\* they were; all it may do is start a timer that is not active (an active
\* timer keeps its deadline).
C1_StartSpinIdempotent ==
    [][(spinning /\ lastOp' = "start_spin") =>
         /\ spinning'
         /\ rotation_angle' = rotation_angle
         /\ icon' = icon
         /\ enabled' = enabled
         /\ emitted' = emitted
         /\ timer_active'
         /\ timer_active => timer_remaining' = timer_remaining
         /\ timeout_active => (timeout_active' /\ timeout_remaining' = timeout_remaining)
         /\ timeout_active' => (timeout_active \/ timeout > 0)]_vars

\* A repeated start_spin well into a spin cycle: ticks have turned the icon, the
\* animation timer was stopped and has just been restarted, and "started" was
\* emitted once.
C1_Witness ==
    /\ lastOp = "start_spin"
    /\ spinning
    /\ rotation_angle > 0
    /\ elapsed > 2
    /\ timer_active /\ timer_remaining = Periods(TimerInterval)
    /\ emitted = <<"started">>

\* C2: enable_button called while Idle leaves the state, rotation_angle, the
\* icon, the enabled-state and the emitted notifications unchanged.
C2_EnableButtonIdleNoOp ==
    [][(~spinning /\ lastOp' = "enable_button") =>
         /\ ~spinning'
         /\ rotation_angle' = rotation_angle
         /\ icon' = icon
         /\ enabled' = enabled
         /\ emitted' = emitted]_vars

\* C3: "started" is emitted exactly on an Idle->Spinning transition and
\* "stopped" exactly on a Spinning->Idle transition; the notifications alternate
\* beginning with "started", and started minus stopped is 1 when Spinning and 0
\* when Idle.
Alternates(log) ==
    \A i \in 1..Len(log) : log[i] = (IF i % 2 = 1 THEN "started" ELSE "stopped")
Count(log, what) == Cardinality({i \in 1..Len(log) : log[i] = what})

C3_OneNotificationPerTransition ==
    [][/\ (~spinning /\ spinning') => emitted' = Append(emitted, "started")
       /\ (spinning /\ ~spinning') => emitted' = Append(emitted, "stopped")
       /\ (spinning' = spinning) => emitted' = emitted
       /\ Alternates(emitted')
       /\ Count(emitted', "started") - Count(emitted', "stopped")
            = (IF spinning' THEN 1 ELSE 0)]_vars

\* Two complete spin cycles, the second ended by the timeout.
C3_Witness ==
    /\ emitted = <<"started", "stopped", "started", "stopped">>
    /\ ~spinning
    /\ lastOp = "timeout"

\* C4: with timeout > 0, while Spinning the timeout timer is armed for exactly
\* timeout seconds after the Idle->Spinning transition (a repeated start_spin
\* does not move it, an earlier cycle's timer is not carried over); the control
\* leaves Spinning before that only by enable_button or the stop signal, and the
\* timeout firing makes it Idle.
C4_TimeoutLaw ==
    [][(timeout > 0) =>
         /\ spinning' => (timeout_active' /\ timeout_remaining' + elapsed' = TimeoutPeriods)
         /\ (spinning /\ ~spinning' /\ lastOp' \notin {"enable_button", "fire"}) =>
              (lastOp' = "timeout" /\ elapsed = TimeoutPeriods)
         /\ lastOp' = "timeout" => (~spinning' /\ ~timeout_active')]_vars

\* The second spin cycle ends by its timeout, timeout seconds after it began.
C4_Witness ==
    /\ timeout > 0
    /\ lastOp = "timeout"
    /\ ~spinning
    /\ elapsed = TimeoutPeriods
    /\ Len(emitted) = 4

\* C5: with timeout = 0 the timeout timer is never active, and the control
\* leaves Spinning only by enable_button, called directly or by the stop signal.
C5_NoTimeoutWhenZero ==
    [][(timeout = 0) =>
         /\ ~timeout_active'
         /\ (spinning /\ ~spinning') => lastOp' \in {"enable_button", "fire"}]_vars

\* Still Spinning after every period followed, a tick and a repeated start_spin.
C5_Witness ==
    /\ timeout = 0
    /\ spinning
    /\ elapsed = MaxElapsed
    /\ rotation_angle >= 3 * AngleStep
    /\ lastOp = "start_spin"

\* C6: when the bound stop signal fires, the control is Idle with both timers
\* stopped whatever the timers' states were; "stopped" is emitted once if the
\* control was Spinning and nothing is emitted if it was Idle.
C6_ExternalTrigger ==
    [][(lastOp' = "fire" /\ lastArg' = stop_signal) =>
         /\ ~spinning'
         /\ ~timer_active'
         /\ ~timeout_active'
         /\ emitted' = (IF spinning THEN Append(emitted, "stopped") ELSE emitted)]_vars

\* The bound signal has fired and a spin cycle of some periods has ended.
C6_Witness ==
    /\ lastOp = "fire"
    /\ lastArg = stop_signal
    /\ ~spinning
    /\ emitted = <<"started", "stopped">>
    /\ elapsed > 0

\* C7: set_enable_signal(sig) leaves enable_button connected to sig and to no
\* other signal (to none for sig = None); a signal that is not the bound one
\* changes nothing of the control when it fires, and the bound one firing while
\* Spinning makes the control Idle.
C7_Rebind ==
    [][/\ (lastOp' = "set_enable_signal") =>
            /\ stop_signal' = lastArg'
            /\ connections' = OnlyConnected(lastArg')
       /\ (lastOp' = "fire" /\ lastArg' # stop_signal) => UNCHANGED btnVars
       /\ (lastOp' = "fire" /\ lastArg' = stop_signal /\ spinning) => ~spinning']_vars

\* Mid-spin, after a rebind from one signal to another, the old signal has
\* fired and the control is still Spinning.
C7_Witness ==
    /\ lastOp = "fire"
    /\ old_signal \in Signals
    /\ stop_signal \in Signals
    /\ old_signal # stop_signal
    /\ lastArg = old_signal
    /\ spinning

\* C8: when signal.connect raises inside set_enable_signal, no stop signal is
\* recorded and enable_button is connected to no signal, the previous one
\* included.
C8_BindFailureFailsOpen ==
    lastOp = "set_enable_signal_failed" =>
        /\ stop_signal = None
        /\ connections = NoConnections

\* A failed rebind from a bound signal to another one.
C8_Witness ==
    /\ lastOp = "set_enable_signal_failed"
    /\ old_signal \in Signals
    /\ lastArg \in Signals
    /\ lastArg # old_signal
    /\ stop_signal = None

\* ------------------------------------------------- SignalTracker: actions
Connect(p, connect_ok) ==
    /\ Len(connected_signals) < MaxRecords
    /\ live[p] < MaxLive
    /\ LET r == connect(connected_signals, live, p, connect_ok)
       IN  /\ connected_signals' = r.connected_signals
           /\ live' = r.live
           /\ escaped' = r.escaped
    /\ issued' = <<>>
    /\ logged' = <<>>
    /\ connects_ok' = IF connect_ok THEN connects_ok + 1 ELSE connects_ok
    /\ lastOp' = IF connect_ok THEN "connect" ELSE "connect_failed"
    /\ lastArg' = None
    /\ UNCHANGED <<ctlVars, owner_connections, disconnect_calls>>

DisconnectAll(failing) ==
    /\ LET r == disconnect_all(connected_signals, live, failing)
       IN  /\ connected_signals' = r.connected_signals
           /\ live' = r.live
           /\ issued' = r.issued
           /\ logged' = r.logged
           /\ escaped' = r.escaped
    /\ connects_ok' = 0
    /\ lastOp' = "disconnect_all"
    /\ lastArg' = None
    /\ UNCHANGED <<ctlVars, owner_connections, disconnect_calls>>

\* A tracker beside an idle control.
InitTracker ==
    /\ Init
    /\ timeout = 0
    /\ ~disable_while_spinning
    /\ stop_signal = None

NextTracker ==
    \/ \E p \in Pairs : Connect(p, TRUE)
    \/ \E p \in Pairs : Connect(p, FALSE)
    \/ \E failing \in SUBSET (1..Len(connected_signals)) : DisconnectAll(failing)

SpecTracker == InitTracker /\ [][NextTracker]_vars

Occurrences(seq, p) == Cardinality({i \in 1..Len(seq) : seq[i] = p})

\* C9: whatever the tracker holds and whichever of the disconnects raise,
\* disconnect_all returns with an empty record sequence and without raising;
\* it has called disconnect once for every record held at entry, and every
\* record whose disconnect did not raise has lost its connection.
C9_TeardownComplete ==
    [][(lastOp' = "disconnect_all") =>
         /\ connected_signals' = <<>>
         /\ ~escaped'
         /\ Len(issued') = Len(connected_signals)
         /\ \A p \in Pairs :
              live'[p] = live[p] - (Occurrences(connected_signals, p)
                                     - Occurrences(logged', p))]_vars

\* Three records torn down, the first disconnect raising and the others not.
C9_Witness ==
    /\ lastOp = "disconnect_all"
    /\ Len(issued) = 3
    /\ logged = <<issued[1]>>
    /\ issued[2] # issued[1] /\ issued[3] # issued[1]
    /\ connected_signals = <<>>

\* C10: every record of the tracker has a live connection of its own; connect
\* appends its record exactly when signal.connect succeeded and leaves the
\* sequence as it was when it raised; disconnect_all disconnects each record
\* held once and keeps none, so a later disconnect_all disconnects none of
\* them again.
C10_RecordsAreLive ==
    [][/\ \A p \in Pairs : Occurrences(connected_signals', p) <= live'[p]
       /\ (lastOp' = "connect") =>
            \E p \in Pairs : /\ connected_signals' = Append(connected_signals, p)
                             /\ live' = [live EXCEPT ![p] = @ + 1]
                             /\ ~escaped'
       /\ (lastOp' = "connect_failed") =>
            /\ connected_signals' = connected_signals
            /\ live' = live
            /\ escaped'
       /\ (lastOp' = "disconnect_all") =>
            /\ connected_signals' = <<>>
            /\ \A p \in Pairs :
                 Occurrences(issued', p) = Occurrences(connected_signals, p)]_vars

\* A connect has raised while the tracker held records, and they are all kept.
C10_Witness ==
    /\ lastOp = "connect_failed"
    /\ escaped
    /\ Len(connected_signals) = 2
    /\ connected_signals[1] = connected_signals[2]
    /\ live[connected_signals[1]] >= 2

\* C11: connect does not deduplicate: the record sequence is as long as the
\* number of connect calls that returned since the last disconnect_all, and a
\* pair held k times has at least k live connections.
C11_NoDeduplication ==
    /\ Len(connected_signals) = connects_ok
    /\ \A p \in Pairs : live[p] >= Occurrences(connected_signals, p)

\* The same pair connected three times: three records, three live connections.
C11_Witness ==
    /\ lastOp = "connect"
    /\ connects_ok = 3
    /\ Len(connected_signals) = 3
    /\ connected_signals[1] = connected_signals[2]
    /\ connected_signals[2] = connected_signals[3]
    /\ live[connected_signals[1]] = 3

\* C12: on a Spinning->Idle transition the control is re-enabled exactly when
\* the start_spin of that cycle had disabled it (an owner-disabled control stays
\* disabled), and with disable_while_spinning false neither start_spin nor
\* enable_button changes the enabled-state.
C12_ReenableOnlyIfAutoDisabled ==
    [][/\ (spinning /\ ~spinning') => enabled' = (enabled \/ auto_disabled)
       /\ (~disable_while_spinning /\ lastOp' \in {"start_spin", "enable_button"}) =>
            enabled' = enabled]_vars

\* C13 (as claimed): a click on a disabled control changes nothing, a click on
\* an enabled one does what start_spin does, and with disable_while_spinning a
\* click made while Spinning always finds the control disabled.
C13_ClickNeverReachesSpinning ==
    [][/\ (lastOp' = "on_clicked" /\ ~enabled) => UNCHANGED <<btnVars, sigVars>>
       /\ (lastOp' = "on_clicked" /\ enabled) => Self' = start_spin(Self)
       /\ (lastOp' = "on_clicked" /\ disable_while_spinning /\ spinning) => ~enabled]_vars

\* C13 (amended): a click on a disabled control changes nothing and a click on
\* an enabled one does what start_spin does; with disable_while_spinning the
\* control is disabled by every Idle->Spinning transition and, while it stays
\* Spinning, only the owner's setEnabled enables it again.
C13_ClickFollowsEnabledState ==
    [][/\ (lastOp' = "on_clicked" /\ ~enabled) => UNCHANGED <<btnVars, sigVars>>
       /\ (lastOp' = "on_clicked" /\ enabled) => Self' = start_spin(Self)
       /\ (disable_while_spinning /\ ~spinning /\ spinning') => ~enabled'
       /\ (disable_while_spinning /\ spinning /\ spinning' /\ ~enabled
             /\ lastOp' # "setEnabled") => ~enabled']_vars

\* A click made mid-spin on the auto-disabled control, and ignored.
C13_Witness ==
    /\ lastOp = "on_clicked"
    /\ disable_while_spinning
    /\ auto_disabled
    /\ spinning
    /\ ~enabled
    /\ elapsed > 0

\* ------------------------------------- SignalTools.disconnect_all_signals_from
\* Somebody connects a handler to the owner's signal a.
OwnerConnect(a) ==
    /\ owner_connections[a] < MaxOwnerConnections
    /\ owner_connections' = [owner_connections EXCEPT ![a] = @ + 1]
    /\ disconnect_calls' = 0
    /\ escaped' = FALSE
    /\ lastOp' = "owner_connect"
    /\ lastArg' = None
    /\ UNCHANGED <<ctlVars, connected_signals, live, issued, logged, connects_ok>>

DisconnectAllSignalsFrom ==
    /\ LET r == disconnect_all_signals_from(1, owner_connections, 0)
       IN  /\ owner_connections' = r.owner_connections
           /\ disconnect_calls' = r.disconnect_calls
           /\ escaped' = r.escaped
    /\ lastOp' = "disconnect_all_signals_from"
    /\ lastArg' = None
    /\ UNCHANGED <<ctlVars, connected_signals, live, issued, logged, connects_ok>>

NextOwner ==
    \/ \E a \in OwnerSignals : OwnerConnect(a)
    \/ DisconnectAllSignalsFrom

SpecOwner == InitTracker /\ [][NextOwner]_vars

RECURSIVE SumOver(_, _)
SumOver(f, S) ==
    IF S = {} THEN 0
    ELSE LET a == CHOOSE x \in S : TRUE IN f[a] + SumOver(f, S \ {a})

C15_TimersFollowState ==
    /\ timer_active <=> spinning
    /\ timeout_active => (spinning /\ timeout > 0)

\* Idle again after enable_button ended a spin whose timeout was still pending.
C15_Witness ==
    /\ lastOp = "enable_button"
    /\ ~spinning /\ ~timer_active /\ ~timeout_active
    /\ timeout > 0 /\ elapsed < TimeoutPeriods
    /\ Len(emitted) = 2

\* ------------------------------------------------------ the control as a widget
SetIconSize(size, is_qsize) ==
    /\ icon_size' = setIconSize(icon_size, size, is_qsize)
    /\ lastOp' = IF is_qsize THEN "setIconSize" ELSE "setIconSize_failed"
    /\ lastArg' = None
    /\ UNCHANGED <<btnVars, sigVars, elapsed, auto_disabled, trkVars>>

NextWidget ==
    \/ Next
    \/ \E size \in IconSizes : \E is_qsize \in BOOLEAN : SetIconSize(size, is_qsize)

SpecWidget == Init /\ [][NextWidget]_vars

\* C16: a step that leaves Spinning is enable_button applied to the control
\* (directly, from the stop signal or from the timeout) and a step that enters
\* Spinning is start_spin (directly or from a click); set_enable_signal, the
\* animation tick, setIconSize and an ignored click leave the state, the
\* activity of both timers and the notifications as they were.
C16_StateChangesOnlyInHandlers ==
    [][/\ (spinning /\ ~spinning') =>
            /\ lastOp' \in {"enable_button", "fire", "timeout"}
            /\ Self' = enable_button(Self)
       /\ (~spinning /\ spinning') =>
            /\ lastOp' \in {"start_spin", "on_clicked"}
            /\ Self' = start_spin(Self)
       /\ (\/ lastOp' \in {"set_enable_signal", "set_enable_signal_failed", "tick",
                           "setIconSize", "setIconSize_failed"}
           \/ (lastOp' = "on_clicked" /\ ~enabled)) =>
            UNCHANGED <<spinning, timer_active, timeout_active, emitted>>]_vars

\* A new icon size set mid-spin on a control whose stop signal was unbound.
C16_Witness ==
    /\ lastOp = "setIconSize"
    /\ icon_size # DefaultIconSize
    /\ spinning /\ timer_active /\ timeout_active
    /\ stop_signal = None
    /\ elapsed > 0
    /\ Len(emitted) = 3

\* ------------------------------------------------------- the animation frames
\* rotate_svg called as a method, without the timer.
RotateSvg ==
    /\ Apply(rotate_svg(Self), "rotate_svg", None)
    /\ UNCHANGED <<sigVars, trkVars>>

\* The owner starts the public animation timer itself.
StartTimer ==
    /\ ~timer_active
    /\ Apply(timer_start(Self), "timer.start", None)
    /\ UNCHANGED <<sigVars, trkVars>>

NextFrames ==
    \/ StartSpin
    \/ EnableButton
    \/ Click
    \/ TimerTick
    \/ TimeoutFires
    \/ Advance
    \/ \E v \in BOOLEAN : SetEnabled(v)
    \/ RotateSvg
    \/ StartTimer

SpecFrames == Init /\ [][NextFrames]_vars

TicksPerTurn == FullTurn \div AngleStep
Angles == {a \in 0 .. (FullTurn - AngleStep) : a % AngleStep = 0}

RECURSIVE rotate_svg_times(_, _)
rotate_svg_times(b, n) ==
    IF n = 0 THEN b ELSE rotate_svg_times(rotate_svg(b), n - 1)

\* C17: rotationAngle is always a multiple of 10 in 0..350; a step into
\* Spinning sets it to 0, a tick while Spinning advances it by 10 modulo 360,
\* every other step (enable_button and a repeated start_spin among them)
\* leaves it unchanged; from angle 0 while Spinning, 36 ticks and no fewer
\* bring it back to 0.
C17_AngleLaw ==
    /\ [](rotation_angle \in Angles)
    /\ []((spinning /\ rotation_angle = 0) =>
            /\ rotate_svg_times(Self, TicksPerTurn).rotation_angle = 0
            /\ \A k \in 1 .. (TicksPerTurn - 1) :
                 rotate_svg_times(Self, k).rotation_angle = k * AngleStep)
    /\ [][IF ~spinning /\ spinning' THEN rotation_angle' = 0
          ELSE IF spinning /\ lastOp' \in {"tick", "rotate_svg"}
            THEN rotation_angle' = (rotation_angle + AngleStep) % FullTurn
          ELSE rotation_angle' = rotation_angle]_vars

\* The angle back at 0 by a tick: the 36th tick of a full turn.
C17_Witness ==
    /\ spinning
    /\ rotation_angle = 0
    /\ lastOp \in {"tick", "rotate_svg"}

\* C18: a tick delivered while Idle changes nothing but the animation timer,
\* which it stops; the icon shown is the enabled icon in every Idle state and
\* the spinner frame of the current rotationAngle in every Spinning state.
C18_StaleTickIsNoOp ==
    /\ [](icon = IF spinning THEN _spinner_icon(rotation_angle) ELSE EnabledIcon)
    /\ [][(~spinning /\ lastOp' \in {"tick", "rotate_svg"}) =>
            /\ ~timer_active'
            /\ UNCHANGED <<spinning, rotation_angle, icon, enabled, emitted,
                           timeout_active, timeout_remaining>>]_vars

\* A tick of an animation timer that ran while the control was Idle.
C18_Witness ==
    /\ lastOp = "tick"
    /\ ~spinning
    /\ ~timer_active
    /\ icon = EnabledIcon
    /\ rotation_angle > 0

Reverse(seq) == [i \in 1 .. Len(seq) |-> seq[Len(seq) + 1 - i]]

\* C19: disconnect_all issues one disconnect per record held at entry, last
\* appended first, each with the record's own (signal, handler) pair, whichever
\* of the disconnects fail.
C19_ReverseInsertionOrder ==
    [][(lastOp' = "disconnect_all") => issued' = Reverse(connected_signals)]_vars

\* Three different records torn down, the disconnect of the second one issued
\* failing.
C19_Witness ==
    /\ lastOp = "disconnect_all"
    /\ Len(issued) = 3
    /\ Cardinality({issued[1], issued[2], issued[3]}) = 3
    /\ logged = <<issued[2]>>
    /\ ~escaped

\* ------------------------------------------------- handlers that are re-entered
\* Room in the notification record for what the step emits and for the end of
\* the spin it leaves running.
Fits(b) == Len(b.emitted) + (IF b.spinning THEN 1 ELSE 0) <= MaxEmits

\* The step emitted signal_started_spinning.
Started(b) ==
    \E i \in (Len(emitted) + 1) .. Len(b.emitted) : b.emitted[i] = "started"

ApplyObserved(b, op, reentered) ==
    /\ Fits(b)
    /\ ApplyCycle(b, IF reentered THEN op \o "_reentered" ELSE op, None, Started(b),
                  disable_while_spinning /\ (spinning \/ enabled))
    /\ UNCHANGED <<sigVars, trkVars>>

StartSpinObserved(obs) ==
    /\ obs \in Observers
    /\ ApplyObserved(start_spin_observed(Self, obs), "start_spin",
                     ~spinning /\ obs = "on_started")

EnableButtonObserved(obs) ==
    /\ obs \in Observers
    /\ ApplyObserved(enable_button_observed(Self, obs), "enable_button",
                     spinning /\ obs = "on_stopped")

ClickObserved(obs) ==
    /\ obs \in Observers
    /\ ApplyObserved(on_clicked_observed(Self, obs), "on_clicked",
                     enabled /\ ~spinning /\ obs = "on_started")

TimeoutFiresObserved(obs) ==
    /\ timeout_active /\ timeout_remaining = 0
    /\ ApplyObserved(enable_button_observed(timeout_timer_stop(Self), obs), "timeout",
                     spinning /\ obs = "on_stopped")

FireSignalObserved(s, obs) ==
    /\ obs \in Observers
    /\ ApplyObserved(emit_to_button_observed(Self, connections[s], obs), "fire",
                     connections[s] > 0 /\ spinning /\ obs = "on_stopped")

NextReentrant ==
    \/ \E obs \in Observers : StartSpinObserved(obs)
    \/ \E obs \in Observers : EnableButtonObserved(obs)
    \/ \E obs \in Observers : ClickObserved(obs)
    \/ \E obs \in Observers : TimeoutFiresObserved(obs)
    \/ \E s \in Signals : \E obs \in Observers : FireSignalObserved(s, obs)
    \/ TimerTick
    \/ Advance
    \/ \E v \in BOOLEAN : SetEnabled(v)

SpecReentrant == Init /\ [][NextReentrant]_vars

StartReentered == {"start_spin_reentered", "on_clicked_reentered"}
StopReentered == {"enable_button_reentered", "timeout_reentered", "fire_reentered"}

\* C20: with an observer that calls enable_button from "started spinning" or
\* start_spin from "stopped spinning", after every outermost call the animation
\* timer is active exactly when Spinning, the timeout timer only when Spinning
\* with timeoutSeconds > 0, the icon is that of the state and the
\* notifications emitted alternate started/stopped; after a re-entered call
\* the control is in the state the observer's call asked for, with the
\* enabled-state of that state under disableWhileSpinningFlag, and both
\* notifications were emitted.
C20_ReentrantHandlersConsistent ==
    /\ [](/\ timer_active <=> spinning
          /\ timeout_active => (spinning /\ timeout > 0)
          /\ icon = IF spinning THEN _spinner_icon(rotation_angle) ELSE EnabledIcon
          /\ Alternates(emitted))
    /\ [][/\ (lastOp' \in StartReentered) =>
               /\ ~spinning'
               /\ emitted' = emitted \o <<"started", "stopped">>
          /\ (lastOp' \in StopReentered) =>
               /\ spinning' /\ rotation_angle' = 0
               /\ emitted' = emitted \o <<"stopped", "started">>
               /\ timeout > 0 => timeout_remaining' = TimeoutPeriods
          /\ (lastOp' \in StartReentered \cup StopReentered /\ disable_while_spinning) =>
               (enabled' <=> ~spinning')]_vars

\* Spinning again because the observer of "stopped spinning" restarted the spin
\* from inside the timeout's enable_button.
C20_Witness ==
    /\ lastOp = "timeout_reentered"
    /\ spinning /\ timer_active /\ timeout_active
    /\ disable_while_spinning /\ ~enabled
    /\ emitted = <<"started", "stopped", "started">>

====
